---- MODULE Spec2Model ----
(***************************************************************************)
(* A model of the parser-combinator engine of parser.py.                   *)
(*                                                                         *)
(* The heap of parser objects is the sequence `parsers` (an object's id is *)
(* its index).  A parse call is run by an explicit call stack: one frame   *)
(* per active parse() invocation, one action per piece of straight-line    *)
(* code between two calls.  Text is a sequence of one-character strings.   *)
(* A ParseResult is a record; its payload `parsed` is split in two fields, *)
(* `str` (used when the payload is a str) and `list` (when it is a list of *)
(* ParseResult), and `kind` says which one isinstance() would find.        *)
(***************************************************************************)
EXTENDS Integers, Sequences, FiniteSets, TLC

VARIABLES
    parsers,   \* the heap: id -> [kind, literal, pattern, parsers]
    stack,     \* the call stack of parse() frames, the innermost last
    status,    \* "idle" | "running" | "returned" | the name of the exception raised
    result,    \* the value the outermost call returned (when status = "returned")
    call,      \* the arguments of the outermost call
    log,       \* history: the calls that returned during the outermost call
    raiser,    \* history: the frame that raised, when an exception ended the call
    kept,      \* a call on the present grammar and the result the caller kept of it
    made       \* history: how each object was made (a constructor, or a | b)

vars == <<parsers, stack, status, result, call, log, raiser, kept, made>>

-----------------------------------------------------------------------------
(* Bounds of the model *)

\* Depth of the call stack at which the interpreter raises RecursionError.
RecursionLimit == 8

\* Number of parser objects the heap may hold (six are made by the module).
MaxObjects == 8

-----------------------------------------------------------------------------
(* Sequences of characters *)

Take(s, n) == SubSeq(s, 1, n)

\* s[n:]
Drop(s, n) == SubSeq(s, n + 1, Len(s))

\* s.startswith(p)
StartsWith(s, p) == Len(p) <= Len(s) /\ Take(s, Len(p)) = p

Digits == {"0", "1", "2", "3", "4", "5", "6", "7", "8", "9"}

-----------------------------------------------------------------------------
(* ParseResult *)

None == 0

\* ParseResult(parser, parsed) with a str payload
StrResult(p, s) == [kind |-> "str", parser |-> p, str |-> s, list |-> <<>>]

\* ParseResult(parser, parsed) with a list payload
ListResult(p, rs) == [kind |-> "list", parser |-> p, str |-> <<>>, list |-> rs]

\* ParseResult.FAILED = ParseResult(None, None)
FAILED == [kind |-> "None", parser |-> None, str |-> <<>>, list |-> <<>>]

\* The outcome of evaluating a property: a value, or an exception.
Value(v) == [raises |-> "", value |-> v]
Raises(e) == [raises |-> e, value |-> 0]

\* ParseResult.length
length(r) ==
    IF r = FAILED THEN Value(0)
    ELSE IF r.kind = "str" THEN Value(Len(r.str))
    ELSE Raises("NotImplementedError")

-----------------------------------------------------------------------------
(* Parser objects *)

Literal(s) == [kind |-> "Literal", literal |-> s, pattern |-> {}, parsers |-> <<>>]

\* RegexParser(r"[class]+"): the pattern is kept as its character class
Regex(class) == [kind |-> "Regex", literal |-> <<>>, pattern |-> class, parsers |-> <<>>]

\* SequenceParser() / GroupParser(): CombinedParser.__init__ sets parsers = ()
Combined(k) == [kind |-> k, literal |-> <<>>, pattern |-> {}, parsers |-> <<>>]

\* The module-level objects, in the order they are constructed.
expr == 1
add == 2
mult == 3
num == 4
plus == 5
star == 6

\* The heap after the module's constructors have run, before any define.
Constructed ==
    << Combined("Group"), Combined("Sequence"), Combined("Sequence"),
       Regex(Digits), Literal(<<"+">>), Literal(<<"*">>) >>

Ids(h) == 1..Len(h)

IsCombined(h, p) == h[p].kind \in {"Sequence", "Group"}

-----------------------------------------------------------------------------
(* Construction: define and | *)

\* The child list CombinedParser.define(self, *args) stores in self.parsers.
DefineParsers(h, self, args) ==
    IF Len(args) = 1 /\ h[args[1]].kind = h[self].kind
    THEN h[args[1]].parsers
    ELSE args

\* The heap after self.define(*args).
DefineHeap(h, self, args) ==
    [h EXCEPT ![self].parsers = DefineParsers(h, self, args)]

\* OrArgs without the branch for a right operand that is a choice: the
\* choice is nested as one child.
OrArgsNested(h, a, b) ==
    IF h[a].kind = "Group"
    THEN IF h[b].kind = "Group"
         THEN h[a].parsers \o h[b].parsers
         ELSE h[a].parsers \o <<b>>
    ELSE <<a, b>>

\* The arguments Parser.__or__(a, b) hands to define.
OrArgs(h, a, b) ==
    IF h[a].kind = "Group"
    THEN IF h[b].kind = "Group"
         THEN h[a].parsers \o h[b].parsers
         ELSE h[a].parsers \o <<b>>
    ELSE IF h[b].kind = "Group"
         THEN <<a>> \o h[b].parsers
         ELSE <<a, b>>

\* OrHeap extending a left operand that is a choice in place, as well as
\* making the new choice.
OrHeapInPlace(h, a, b) ==
    LET new == DefineHeap(Append(h, Combined("Group")), Len(h) + 1, OrArgs(h, a, b))
    IN  IF h[a].kind = "Group"
        THEN [new EXCEPT ![a].parsers = new[Len(h) + 1].parsers]
        ELSE new

\* The heap after a | b: a new GroupParser, defined with OrArgs.
OrHeap(h, a, b) ==
    DefineHeap(Append(h, Combined("Group")), Len(h) + 1, OrArgs(h, a, b))

-----------------------------------------------------------------------------
(* The leaf parsers *)

\* LiteralParser.parse(text, partially), self.literal = lit
LiteralResult(self, lit, text, partially) ==
    IF ~StartsWith(text, lit) THEN FAILED
    ELSE IF ~partially /\ text # lit THEN FAILED
    ELSE StrResult(self, lit)

\* match.end() of re.compile("[class]+").match(text), or -1 when there is no
\* match: the longest run of characters of the class at the start of text.
MatchEnd(class, text) ==
    LET run == {n \in 0..Len(text) : \A k \in 1..n : text[k] \in class}
        end == CHOOSE n \in run : \A m \in run : m <= n
    IN  IF end >= 1 THEN end ELSE -1

\* RegexParser.parse(text, partially), self.pattern = [class]+
RegexResult(self, class, text, partially) ==
    LET end == MatchEnd(class, text)
    IN  IF end # -1
        THEN IF partially THEN StrResult(self, Take(text, end))
             ELSE IF text # Take(text, end) THEN FAILED
             ELSE StrResult(self, text)
        ELSE FAILED

-----------------------------------------------------------------------------
(* The call stack *)

\* A frame of parse(self, text, partially): its arguments and locals.  pc is
\* "call" before the next child is called and "test" when it has returned
\* into the local `result`.  i is the position of the for loop, and text0
\* (history) the text the frame was called with.
Frame(p, t, b) ==
    [self |-> p, text |-> t, partially |-> b, pc |-> "call", i |-> 1,
     results |-> <<>>, result |-> FAILED, text0 |-> t]

NoFrame == Frame(None, <<>>, FALSE)

Call(p, t, b) == [parser |-> p, text |-> t, partially |-> b]

NoCall == [call |-> Call(None, <<>>, FALSE), out |-> FAILED]

top == stack[Len(stack)]

kids == parsers[top.self].parsers

Running(k) == status = "running" /\ parsers[top.self].kind = k

\* The innermost call returns v: to the frame below, or to the caller.
Return(v) ==
    /\ log' = log \cup {[call |-> Call(top.self, top.text0, top.partially), out |-> v]}
    /\ IF Len(stack) = 1
       THEN /\ stack' = <<>>
            /\ status' = "returned"
            /\ result' = v
       ELSE /\ stack' = [SubSeq(stack, 1, Len(stack) - 1)
                            EXCEPT ![Len(stack) - 1].result = v,
                                   ![Len(stack) - 1].pc = "test"]
            /\ UNCHANGED <<status, result>>
    /\ UNCHANGED <<parsers, call, raiser, kept, made>>

\* An exception leaves the innermost frame; no frame catches it.
Raise(e) ==
    /\ stack' = <<>>
    /\ status' = e
    /\ raiser' = top
    /\ UNCHANGED <<parsers, result, call, log, kept, made>>

\* The innermost frame calls p.parse(t, b).
Invoke(p, t, b) ==
    IF Len(stack) >= RecursionLimit
    THEN Raise("RecursionError")
    ELSE /\ stack' = Append(stack, Frame(p, t, b))
         /\ UNCHANGED <<parsers, status, result, call, log, raiser, kept, made>>

\* The innermost frame goes on with its locals changed.
Goto(f) ==
    /\ stack' = [stack EXCEPT ![Len(stack)] = f]
    /\ UNCHANGED <<parsers, status, result, call, log, raiser, kept, made>>

-----------------------------------------------------------------------------
(* Actions: parsing *)

\* The caller calls p.parse(t, b).
StartParse(p, t, b) ==
    /\ status # "running"
    /\ stack' = <<Frame(p, t, b)>>
    /\ status' = "running"
    /\ call' = Call(p, t, b)
    /\ result' = FAILED
    /\ log' = {}
    /\ raiser' = NoFrame
    /\ UNCHANGED <<parsers, kept, made>>

LiteralParse ==
    /\ Running("Literal")
    /\ Return(LiteralResult(top.self, parsers[top.self].literal, top.text, top.partially))

RegexParse ==
    /\ Running("Regex")
    /\ Return(RegexResult(top.self, parsers[top.self].pattern, top.text, top.partially))

\* SequenceParser.parse: result = parser.parse(text, True)
SequenceCall ==
    /\ Running("Sequence")
    /\ top.pc = "call"
    /\ top.i <= Len(kids)
    /\ Invoke(kids[top.i], top.text, TRUE)

\* SequenceTest failing on a failed child in partial mode too.
SequenceTestFails ==
    /\ Running("Sequence")
    /\ top.pc = "test"
    /\ IF top.result = FAILED
       THEN Return(FAILED)
       ELSE LET n == length(top.result)
            IN  IF n.raises # ""
                THEN Raise(n.raises)
                ELSE Goto([top EXCEPT !.results = Append(top.results, top.result),
                                      !.text = Drop(top.text, n.value),
                                      !.i = top.i + 1,
                                      !.pc = "call"])

\* SequenceParser.parse: the loop body after the child has returned.  A
\* failed child ends the call (total mode) or the loop (partial mode, where
\* the code after the loop then returns the results gathered).
SequenceTest ==
    /\ Running("Sequence")
    /\ top.pc = "test"
    /\ IF top.result = FAILED
       THEN IF ~top.partially
            THEN Return(FAILED)
            ELSE Return(ListResult(top.self, top.results))
       ELSE LET n == length(top.result)
            IN  IF n.raises # ""
                THEN Raise(n.raises)
                ELSE Goto([top EXCEPT !.results = Append(top.results, top.result),
                                      !.text = Drop(top.text, n.value),
                                      !.i = top.i + 1,
                                      !.pc = "call"])

\* SequenceParser.parse: after the last child.
SequenceEnd ==
    /\ Running("Sequence")
    /\ top.pc = "call"
    /\ top.i > Len(kids)
    /\ IF ~top.partially /\ Len(top.text) > 0
       THEN Return(FAILED)
       ELSE Return(ListResult(top.self, top.results))

\* GroupCall calling the child in partial mode, as a sequence does.
GroupCallPartial ==
    /\ Running("Group")
    /\ top.pc = "call"
    /\ top.i <= Len(kids)
    /\ Invoke(kids[top.i], top.text, TRUE)

\* GroupParser.parse: result = parser.parse(text, partially)
GroupCall ==
    /\ Running("Group")
    /\ top.pc = "call"
    /\ top.i <= Len(kids)
    /\ Invoke(kids[top.i], top.text, top.partially)

\* GroupParser.parse: the loop body after the child has returned.
GroupTest ==
    /\ Running("Group")
    /\ top.pc = "test"
    /\ IF top.result # FAILED
       THEN Return(top.result)
       ELSE Goto([top EXCEPT !.i = top.i + 1, !.pc = "call"])

\* GroupParser.parse: after the last child.
GroupEnd ==
    /\ Running("Group")
    /\ top.pc = "call"
    /\ top.i > Len(kids)
    /\ Return(FAILED)

Step ==
    \/ LiteralParse
    \/ RegexParse
    \/ SequenceCall
    \/ SequenceTest
    \/ SequenceEnd
    \/ GroupCall
    \/ GroupTest
    \/ GroupEnd

-----------------------------------------------------------------------------
(* Grammars and inputs *)

\* The heap after the define calls of prog, a sequence of <<self, args>>.
RECURSIVE Wire(_, _)
Wire(h, prog) ==
    IF prog = <<>> THEN h
    ELSE Wire(DefineHeap(h, prog[1][1], prog[1][2]), Tail(prog))

\* The grammar the module wires: left-recursive through add and mult.
ModuleGrammar ==
    << <<expr, <<num, add, mult>>>>,
       <<add, <<expr, plus, expr>>>>,
       <<mult, <<expr, star, expr>>>> >>

\* Expr = Alternative(Sequence(Digits, "+", Expr), Digits); mult is left empty.
ExprGrammar ==
    << <<expr, <<add, num>>>>,
       <<add, <<num, plus, expr>>>> >>

\* Sum = Sequence(Digits, "+", Digits), a choice that starts with Digits, and
\* a sequence whose first child is itself a sequence.
SumGrammar ==
    << <<add, <<num, plus, num>>>>,
       <<expr, <<num, add>>>>,
       <<mult, <<add, star>>>> >>

\* A choice between two sequences and a leaf; mult adopts the children of a
\* sequence it is defined with, and is then given its own.
ChoiceGrammar ==
    << <<add, <<num, plus, num>>>>,
       <<mult, <<add>>>>,
       <<mult, <<num, star, num>>>>,
       <<expr, <<add, mult, num>>>> >>

Grammars == {ModuleGrammar, ExprGrammar, SumGrammar, ChoiceGrammar}

Texts ==
    { <<>>, <<"1">>, <<"1", "2">>, <<"x">>, <<"+">>, <<"1", "+">>,
      <<"1", "+", "2">>, <<"1", "2", "+", "7">>, <<"1", "2", "+", "7", "x">>,
      <<"1", "+", "2", "+", "3">>, <<"1", "+", "2", "x">>, <<"1", "*", "2">>,
      <<"1", "2", "*">> }

-----------------------------------------------------------------------------
(* Parsing on a wired grammar *)

Init ==
    /\ parsers \in {Wire(Constructed, g) : g \in Grammars}
    /\ stack = <<>>
    /\ status = "idle"
    /\ result = FAILED
    /\ call = NoCall.call
    /\ log = {}
    /\ raiser = NoFrame
    /\ kept = NoCall
    /\ made = [p \in Ids(Constructed) |-> <<>>]

Next ==
    \/ \E p \in Ids(parsers), t \in Texts, b \in BOOLEAN : StartParse(p, t, b)
    \/ Step

Spec == Init /\ [][Next]_vars

-----------------------------------------------------------------------------
(* Actions: construction, between parses *)

\* The caller turns from the last parse to the grammar: what it held of that
\* parse is dropped.
Forget ==
    /\ status' = "idle"
    /\ result' = FAILED
    /\ call' = NoCall.call
    /\ log' = {}
    /\ raiser' = NoFrame
    /\ UNCHANGED stack

\* self.define(*args).  A result kept of the former grammar is let go.
Define(self, args) ==
    /\ status # "running"
    /\ IsCombined(parsers, self)
    /\ \A j \in 1..Len(args) : args[j] \in Ids(parsers)
    /\ parsers' = DefineHeap(parsers, self, args)
    /\ made' = [made EXCEPT ![self] = <<>>]
    /\ kept' = NoCall
    /\ Forget

\* a | b
Or(a, b) ==
    /\ status # "running"
    /\ Len(parsers) < MaxObjects
    /\ parsers' = OrHeap(parsers, a, b)
    /\ made' = Append(made, <<a, b>>)
    /\ UNCHANGED kept
    /\ Forget

\* The caller keeps the result of the call that has just returned.
Keep ==
    /\ status = "returned"
    /\ kept = NoCall
    /\ kept' = [call |-> call, out |-> result]
    /\ UNCHANGED <<parsers, stack, status, result, call, log, raiser, made>>

InitBuild ==
    /\ parsers = Constructed
    /\ stack = <<>>
    /\ status = "idle"
    /\ result = FAILED
    /\ call = NoCall.call
    /\ log = {}
    /\ raiser = NoFrame
    /\ kept = NoCall
    /\ made = [p \in Ids(Constructed) |-> <<>>]

\* The first object a | b makes.
FirstMade == Len(Constructed) + 1

(* Building grammars: define and |, no parsing.  The child lists are those *)
(* of the module and a single choice, which a choice adopts.               *)

BuildTargets == {expr, FirstMade}

BuildArgs == { <<num, add, mult>>, <<expr, plus, expr>>, <<expr>> }

BuildOperands == Ids(parsers) \ {add, mult, star}

NextBuild ==
    \/ \E self \in BuildTargets \cap Ids(parsers), args \in BuildArgs : Define(self, args)
    \/ \E a, b \in BuildOperands : Or(a, b)

SpecBuild == InitBuild /\ [][NextBuild]_vars

(* Building and parsing interleaved, on few inputs. *)

MixedTargets == {expr, add}

MixedArgs == { <<num, add>>, <<num, plus, expr>>, <<FirstMade>> }

MixedOperands == {num, expr}

MixedText == <<"1", "+", "2">>

NextMixed ==
    \/ \E self \in MixedTargets, args \in MixedArgs : Define(self, args)
    \/ \E b \in MixedOperands : Or(expr, b)
    \/ \E p \in {expr, add, Len(parsers)}, b \in BOOLEAN : StartParse(p, MixedText, b)
    \/ Step
    \/ call.parser = expr /\ Keep

SpecMixed == InitBuild /\ [][NextMixed]_vars

-----------------------------------------------------------------------------
(* What the specification says of results *)

RECURSIVE SumSeq(_)
SumSeq(ns) == IF ns = <<>> THEN 0 ELSE Head(ns) + SumSeq(Tail(ns))

\* The length the specification mandates: the characters of a leaf, the sum
\* over the children of a combinator result, 0 for the failure.
RECURSIVE SpecLength(_)
SpecLength(r) ==
    IF r.kind = "str" THEN Len(r.str)
    ELSE SumSeq([j \in 1..Len(r.list) |-> SpecLength(r.list[j])])

RECURSIVE Concat(_)
Concat(ss) == IF ss = <<>> THEN <<>> ELSE Head(ss) \o Concat(Tail(ss))

\* The characters a result consumed, in order.
RECURSIVE Consumed(_)
Consumed(r) ==
    IF r.kind = "str" THEN r.str
    ELSE Concat([j \in 1..Len(r.list) |-> Consumed(r.list[j])])

Children(p) == parsers[p].parsers

Kind(p) == parsers[p].kind

Returned(p, t, b, v) == [call |-> Call(p, t, b), out |-> v] \in log

\* The text left for child j + 1 of a sequence called with text t, when the
\* children before it produced rs.
Rest(t, rs, j) == Drop(t, SumSeq([m \in 1..j |-> SpecLength(rs[m])]))

\* A leaf parser p fails on text t in partial mode.
LeafFails(p, t) ==
    \/ Kind(p) = "Literal" /\ LiteralResult(p, parsers[p].literal, t, TRUE) = FAILED
    \/ Kind(p) = "Regex" /\ RegexResult(p, parsers[p].pattern, t, TRUE) = FAILED

\* The sequence frame f raised on the result of child f.i although the next
\* child is a leaf that fails on the text left after it.
RaisedBeforeFailingChild(f) ==
    /\ status = "NotImplementedError"
    /\ f.self # None
    /\ Kind(f.self) = "Sequence"
    /\ f.result # FAILED
    /\ f.i < Len(Children(f.self))
    /\ LeafFails(Children(f.self)[f.i + 1], Drop(f.text, SpecLength(f.result)))

-----------------------------------------------------------------------------
(* Claims on parsing *)

Wired(g) == parsers = Wire(Constructed, g)

Ended == status \notin {"idle", "running"}

\* C1: a success in total mode has length len(text); a success in partial
\* mode consumed a prefix of text and has a length between 0 and len(text).
\* Stated of every call that returned, with the length the code computes.
C1_ConsumptionContract ==
    \A e \in log :
        e.out # FAILED =>
            LET n == length(e.out)
            IN  /\ n.raises = ""
                /\ ~e.call.partially => n.value = Len(e.call.text)
                /\ e.call.partially =>
                      /\ n.value \in 0..Len(e.call.text)
                      /\ Consumed(e.out) = Take(e.call.text, n.value)

\* C2: a choice calls its children in declaration order with its own text and
\* mode, returns the result of the first child that does not fail, unwrapped,
\* and returns FAILED exactly when every child failed.
C2_GroupFirstMatch ==
    /\ \A k \in 1..Len(stack) :
          LET f == stack[k]
          IN  Kind(f.self) = "Group" =>
                /\ \A j \in 1..(f.i - 1) :
                      Returned(Children(f.self)[j], f.text, f.partially, FAILED)
                /\ f.text = f.text0
                /\ k < Len(stack) =>
                      /\ f.i <= Len(Children(f.self))
                      /\ stack[k + 1].self = Children(f.self)[f.i]
                      /\ stack[k + 1].text0 = f.text
                      /\ stack[k + 1].partially = f.partially
    /\ \A e \in log :
          Kind(e.call.parser) = "Group" =>
            LET cs == Children(e.call.parser)
                failed(j) == Returned(cs[j], e.call.text, e.call.partially, FAILED)
            IN  /\ e.out = FAILED <=> \A j \in 1..Len(cs) : failed(j)
                /\ e.out # FAILED =>
                      \E k \in 1..Len(cs) :
                          /\ \A j \in 1..(k - 1) : failed(j)
                          /\ Returned(cs[k], e.call.text, e.call.partially, e.out)

\* A choice returned its first child's result although a later child, a
\* sequence, matches more of the text; and a choice returned its second
\* child's result after the first had failed.
C2_Witness ==
    /\ status = "returned"
    /\ Kind(call.parser) = "Group"
    /\ Len(Children(call.parser)) >= 2
    /\ \/ /\ result.parser = Children(call.parser)[1]
          /\ Kind(Children(call.parser)[2]) = "Sequence"
          /\ call.partially
          /\ Len(result.str) = 1
          /\ call.text = <<"1", "+", "2">>
       \/ /\ result.parser = Children(call.parser)[2]
          /\ Returned(Children(call.parser)[1], call.text, call.partially, FAILED)
          /\ result.kind = "list"

\* The children of a sequence call e that returned the list rs were called in
\* order, in partial mode, each on the text the ones before it left.
ChildrenInOrder(e, rs) ==
    /\ Len(rs) <= Len(Children(e.call.parser))
    /\ \A j \in 1..Len(rs) :
          /\ rs[j] # FAILED
          /\ Returned(Children(e.call.parser)[j], Rest(e.call.text, rs, j - 1), TRUE, rs[j])

SumText == <<"1", "2", "+", "7">>

\* C3: a sequence whose children match s1..sn in turn succeeds in total mode
\* on s1+...+sn with the payload [r1..rn] and a length that is the sum of the
\* children's lengths; Sum on "12+7" gives child lengths 2, 1, 1 and length 4,
\* and fails on "12+7x".
C3_SequenceConsumption ==
    /\ \A e \in log :
          (/\ Kind(e.call.parser) = "Sequence"
           /\ Children(e.call.parser) # <<>>
           /\ ~e.call.partially
           /\ e.out # FAILED) =>
              /\ e.out.parser = e.call.parser
              /\ e.out.kind = "list"
              /\ Len(e.out.list) = Len(Children(e.call.parser))
              /\ ChildrenInOrder(e, e.out.list)
              /\ length(e.out) =
                    Value(SumSeq([j \in 1..Len(e.out.list) |-> length(e.out.list[j]).value]))
    /\ (Wired(SumGrammar) /\ Ended /\ call.parser = add /\ ~call.partially) =>
          /\ call.text = SumText =>
                /\ status = "returned"
                /\ result.kind = "list"
                /\ [j \in 1..Len(result.list) |-> length(result.list[j])]
                      = <<Value(2), Value(1), Value(1)>>
                /\ length(result) = Value(4)
          /\ call.text = SumText \o <<"x">> => status = "returned" /\ result = FAILED

\* C4: when the children before Pk succeed and Pk fails, a sequence called in
\* partial mode returns the success [r1..r(k-1)] and in total mode FAILED.
C4_SequenceEarlyStop ==
    /\ \A e \in log :
          (Kind(e.call.parser) = "Sequence" /\ e.call.partially) =>
              /\ e.out = ListResult(e.call.parser, e.out.list)
              /\ ChildrenInOrder(e, e.out.list)
              /\ Len(e.out.list) < Len(Children(e.call.parser)) =>
                    Returned(Children(e.call.parser)[Len(e.out.list) + 1],
                             Rest(e.call.text, e.out.list, Len(e.out.list)), TRUE, FAILED)
    /\ ~RaisedBeforeFailingChild(raiser)

\* C5: length is defined for every result: the characters of a leaf, the sum
\* over the children of a combinator result, 0 for FAILED.
C5_LengthDefined ==
    /\ length(FAILED) = Value(0)
    /\ \A e \in log : length(e.out) = Value(SpecLength(e.out))

SumTexts ==
    { <<"1">>, <<"1", "2">>, <<"1", "+", "2">>, <<"1", "2", "+", "7">>,
      <<"1", "+", "2", "+", "3">> }

\* C6: Expr = Alternative(Sequence(Digits, "+", Expr), Digits) in total mode
\* on a text d(+d)* ends with a success that consumes the whole text.
C6_RecursionSucceeds ==
    (Wired(ExprGrammar) /\ Ended /\ call.parser = expr /\ ~call.partially
        /\ call.text \in SumTexts) =>
            /\ status = "returned"
            /\ result # FAILED
            /\ Consumed(result) = call.text

\* C7: a call whose input does not match returns FAILED, the one value with
\* no parser, and does not raise; FAILED has length 0.
C7_FailureSentinel ==
    /\ length(FAILED) = Value(0)
    /\ \A e \in log :
          e.out # FAILED => e.out.parser = e.call.parser \/ Kind(e.call.parser) = "Group"
    /\ \A e \in log : e.out.parser = None => e.out = FAILED
    /\ ~(RaisedBeforeFailingChild(raiser) /\ ~raiser.partially)

\* C10: a sequence called in partial mode never returns FAILED, and returns
\* the empty success when its first child fails; so a choice called in partial
\* mode never gets past a child that is a sequence.
C10_PartialSequenceNeverFails ==
    /\ \A e \in log :
          (Kind(e.call.parser) = "Sequence" /\ e.call.partially) =>
              /\ e.out # FAILED
              /\ e.out.kind = "list"
              /\ Len(e.out.list) <= Len(Children(e.call.parser))
              /\ (/\ Children(e.call.parser) # <<>>
                  /\ Returned(Children(e.call.parser)[1], e.call.text, TRUE, FAILED))
                    => e.out = ListResult(e.call.parser, <<>>)
    /\ \A k \in 1..Len(stack) :
          (Kind(stack[k].self) = "Group" /\ stack[k].partially) =>
              \A j \in 1..(stack[k].i - 1) : Kind(Children(stack[k].self)[j]) # "Sequence"

\* A choice called in partial mode returned the empty success of its first
\* child, a sequence of three whose first child failed, and never tried its
\* second child, which is not a sequence.
C10_Witness ==
    /\ status = "returned"
    /\ call.partially
    /\ Kind(call.parser) = "Group"
    /\ Len(Children(call.parser)) >= 2
    /\ Kind(Children(call.parser)[1]) = "Sequence"
    /\ Len(Children(Children(call.parser)[1])) = 3
    /\ result = ListResult(Children(call.parser)[1], <<>>)
    /\ \A e \in log : e.call.parser # Children(call.parser)[2]

-----------------------------------------------------------------------------
(* Claims on construction *)

\* What an operand x contributes to a | b: its children when it is a choice,
\* itself otherwise.
Spliced(h, x) == IF h[x].kind = "Group" THEN h[x].parsers ELSE <<x>>

MadeByOr(g) == made[g] # <<>>

\* A step of | made a new choice of the operands' spliced children, the left
\* operand's first, and changed no object that existed.
OrStepSplices ==
    Len(parsers') > Len(parsers) =>
        LET new == Len(parsers')
            a == made'[new][1]
            b == made'[new][2]
        IN  /\ new = Len(parsers) + 1
            /\ parsers'[new].kind = "Group"
            /\ parsers'[new].parsers = Spliced(parsers, a) \o Spliced(parsers, b)
            /\ \A c \in Ids(parsers) : parsers'[c] = parsers[c]

\* (P1 | P2) | P3 and P1 | (P2 | P3) have the children [P1, P2, P3].
OrAssociates ==
    \A g \in Ids(parsers) :
        MadeByOr(g) =>
            LET a == made[g][1]
                b == made[g][2]
                leaves(xs) == \A j \in 1..Len(xs) : Kind(xs[j]) # "Group"
            IN  /\ (MadeByOr(a) /\ leaves(made[a] \o <<b>>)) =>
                      Children(g) = made[a] \o <<b>>
                /\ (MadeByOr(b) /\ leaves(<<a>> \o made[b])) =>
                      Children(g) = <<a>> \o made[b]

\* C8: | yields a new choice in which the children of an operand that is a
\* choice are spliced, the left operand's first, so that (P1 | P2) | P3 and
\* P1 | (P2 | P3) both have the children [P1, P2, P3]; the operands keep
\* their own child lists.
C8_OrFlattens == [][OrStepSplices /\ OrAssociates']_vars

\* (num | plus) | expr was made, expr a choice with three children that were
\* spliced in after num and plus.
C8_Witness ==
    \E g \in Ids(parsers) :
        /\ MadeByOr(g)
        /\ MadeByOr(made[g][1])
        /\ made[made[g][1]] = <<num, plus>>
        /\ made[g][2] = expr
        /\ Children(g) = <<num, plus, num, add, mult>>
        /\ Children(expr) = <<num, add, mult>>

\* The objects of the heap whose record a step changes.
Changed == {c \in Ids(parsers) : parsers'[c] # parsers[c]}

\* What a step leaves alone: no object is lost or changes its kind, literal or
\* pattern; a step of a parse changes no object; | changes no object that
\* existed; define changes the child list of one combinator at most; a result
\* the caller holds is not changed.
StepFrame ==
    /\ Len(parsers') >= Len(parsers)
    /\ \A c \in Ids(parsers) :
          [parsers'[c] EXCEPT !.parsers = <<>>] = [parsers[c] EXCEPT !.parsers = <<>>]
    /\ (status = "running" \/ status' = "running") => Changed = {}
    /\ Len(parsers') > Len(parsers) => Changed = {}
    /\ Cardinality(Changed) <= 1
    /\ Changed # {} => kept' = NoCall
    /\ (kept # NoCall /\ kept' # NoCall) => kept' = kept
    /\ (status = "returned" /\ status' = "returned") => result' = result

\* A call repeated on the grammar of a kept call returns the kept result.
SameAgain ==
    (status = "returned" /\ kept # NoCall /\ kept.call = call) => result = kept.out

\* C9: a combinator's child list is changed by its own define only, not by a
\* parse, by | or by the define of another combinator, and no returned result
\* is changed; a parse repeated on the same grammar returns the same result.
C9_FrameAndRepeat == [][StepFrame /\ SameAgain']_vars

\* A parse of expr was repeated, after | made a choice, and returned the
\* success the caller had kept.
C9_Witness ==
    /\ status = "returned"
    /\ kept # NoCall
    /\ kept.call = call
    /\ result = kept.out
    /\ result.kind = "list"
    /\ Len(result.list) = 3
    /\ Len(parsers) > Len(Constructed)
    /\ log # {}

====
